---- MODULE Spec2Model ----
(***************************************************************************)
(* A model of src/src/forest.py (class Graph): the interactome index built *)
(* by Graph.__init__, prepare_prizes, noisy_edges, random_terminals and    *)
(* randomizations.                                                         *)
(*                                                                         *)
(* Conventions.                                                            *)
(*  - A Python list / numpy array / pandas column is a function whose      *)
(*    domain is 0..len-1, so that node IDs and edge indices are the        *)
(*    0-based positions the code uses.                                     *)
(*  - Real numbers (costs, prizes, mu, noise) are integers in hundredths.  *)
(*  - A name the source leaves unbound is read as the object it evidently  *)
(*    means (interactome_dataframe is self.interactome_dataframe, the      *)
(*    prizes and terminals used by randomizations are the ones             *)
(*    prepare_prizes returned, prizes.loc(t) is the entry of prizes at t). *)
(*  - pandas / numpy / random calls are modelled by what they do on the    *)
(*    data they are given.                                                 *)
(***************************************************************************)
EXTENDS Integers, Sequences, FiniteSets, TLC

VARIABLES
  pc,                 \* position of the driving script
  edge_file,          \* rows (source, target, cost) of the interactome file
  prize_file,         \* rows (name, prize) of the prize file
  params,             \* self.params
  nodes,              \* self.nodes: ID -> name
  edges,              \* self.edges: edge index -> <<source ID, target ID>>
  costs,              \* self.costs
  node_degrees,       \* self.node_degrees
  negprizes,          \* self.negprizes
  prizes,             \* prepare_prizes: the prize array
  terminals,          \* prepare_prizes: the terminal list
  terminals_missing_from_interactome,
  rng,                \* state of the module-level generator of `random`
  noisy_log,          \* the noisy_edges calls made so far (seed, costs, result)
  rt_seed,            \* random_terminals: the seed argument of the call
  new_prizes,         \* random_terminals: returned prize array
  new_terminals,      \* random_terminals: returned terminal list
  reps,               \* randomizations: <<noisy_edges_repetitions, random_terminals_repetitions>>
  before,             \* the instance as it was when randomizations started
  edge_costs,         \* randomizations: the saved copy of self.costs
  noisy_list,         \* randomizations: the noisy cost arrays still to solve
  random_list,        \* randomizations: the (random_prizes, terminals) still to solve
  results,            \* randomizations: the trial results
  solver_log,         \* the solver calls made: what each was given
  vertex_indices,     \* randomizations: node_index -> occurrence
  edge_indices,       \* randomizations: edge_index -> occurrence
  nxgraph             \* randomizations: the returned graph (its edge table)

inputVars == <<edge_file, prize_file, params>>
graphVars == <<nodes, edges, node_degrees, negprizes>>
prizeVars == <<prizes, terminals, terminals_missing_from_interactome>>
rtVars    == <<rt_seed, new_prizes, new_terminals>>
rzVars    == <<reps, before, edge_costs, noisy_list, random_list, results,
               solver_log, vertex_indices, edge_indices, nxgraph>>
vars == <<pc, inputVars, graphVars, costs, prizeVars, rng, noisy_log, rtVars, rzVars>>

----------------------------------------------------------------------------
(* Bounds of the model *)

MaxEdges == 2        \* longest small interactome file
MaxPrizeRows == 3    \* longest enumerated prize file
MaxTerminals == 2    \* rows for nodes in the prize file of a large interactome
ExtraEdges == 1      \* large interactomes have up to MinEdges + ExtraEdges edges
MaxCalls == 2        \* noisy_edges calls logged
MaxTrials == 2       \* noisy_edges_repetitions + random_terminals_repetitions

(* Program constants *)

MinEdges == 50       \* random_terminals: "if len(self.edges) < 50"
JitterStd == 10000   \* random_terminals: random.gauss(0, 100.0)
DefaultMu == 4       \* defaults["mu"] = 0.04
DefaultNoise == 33   \* defaults["noise"] = 0.33

None == -1           \* the value of an argument that was not supplied

----------------------------------------------------------------------------
(* Python lists *)

Len0(a) == Cardinality(DOMAIN a)

Append0(a, x) == [i \in 0..Len0(a) |-> IF i < Len0(a) THEN a[i] ELSE x]

Concat0(a, b) ==
  [i \in 0..(Len0(a) + Len0(b) - 1) |-> IF i < Len0(a) THEN a[i] ELSE b[i - Len0(a)]]

Range0(a) == {a[i] : i \in DOMAIN a}

Lists(S, lo, hi) == UNION {[0..(m - 1) -> S] : m \in lo..hi}

MaxOf(S) == CHOOSE x \in S : \A y \in S : y <= x

\* a[i] = v; a pandas Series is enlarged by an assignment to a label it lacks
SetItem(a, i, v) == [j \in DOMAIN a \cup {i} |-> IF j = i THEN v ELSE a[j]]

----------------------------------------------------------------------------
(* Graph.__init__ *)

\* df[["source","target"]].unstack(): the source column, then the target column
Unstack(df) ==
  LET m == Len0(df)
  IN  [k \in 0..(2 * m - 1) |-> IF k < m THEN df[k].source ELSE df[k - m].target]

\* the uniques of pd.factorize: the distinct values, in order of first occurrence
Uniques(col) ==
  LET first == {k \in DOMAIN col : \A j \in DOMAIN col : j < k => col[j] # col[k]}
  IN  [i \in 0..(Cardinality(first) - 1) |->
         col[CHOOSE k \in first : Cardinality({j \in first : j < k}) = i]]

\* pd.Index.get_indexer for one label: its position, or -1
get_indexer(index, name) ==
  IF \E i \in DOMAIN index : index[i] = name
  THEN CHOOSE i \in DOMAIN index : index[i] = name
  ELSE -1

\* the codes of pd.factorize
FactorizeCodes(col) ==
  LET u == Uniques(col)
  IN  [k \in DOMAIN col |-> get_indexer(u, col[k])]

ReshapeRowMajor(codes, m) == [k \in 0..(m - 1) |-> <<codes[2 * k], codes[2 * k + 1]>>]

\* codes.reshape((m, 2), order='F'): column-major
Reshape(codes, m) == [k \in 0..(m - 1) |-> <<codes[k], codes[m + k]>>]

\* ndarray.flatten() of the (m, 2) edge array
Flatten2(e) == [j \in 0..(2 * Len0(e) - 1) |-> e[j \div 2][(j % 2) + 1]]

\* np.bincount
Bincount(x) ==
  IF DOMAIN x = {} THEN <<>>
  ELSE [i \in 0..MaxOf(Range0(x)) |-> Cardinality({j \in DOMAIN x : x[j] = i})]

\* (node_degrees**2 if mu_squared else node_degrees) * mu
NegPrizes(deg, p) ==
  [i \in DOMAIN deg |-> (IF p.mu_squared THEN deg[i] * deg[i] ELSE deg[i]) * p.mu]

GraphInit ==
  /\ pc = "start"
  /\ LET col   == Unstack(edge_file)
         codes == FactorizeCodes(col)
         e     == Reshape(codes, Len0(edge_file))
         deg   == Bincount(Flatten2(e))
     IN  /\ nodes' = Uniques(col)
         /\ edges' = e
         /\ costs' = [k \in DOMAIN edge_file |-> edge_file[k].cost]
         /\ node_degrees' = deg
         /\ negprizes' = NegPrizes(deg, params)
  /\ pc' = "built"
  /\ UNCHANGED <<inputVars, prizeVars, rng, noisy_log, rtVars, rzVars>>

----------------------------------------------------------------------------
(* Graph.prepare_prizes *)

RECURSIVE TakeWhere(_, _, _)
\* the rows of a at the positions in keep, among the first k, in order
TakeWhere(a, keep, k) ==
  IF k = 0 THEN <<>>
  ELSE LET r == TakeWhere(a, keep, k - 1)
       IN  IF (k - 1) \in keep THEN Append0(r, a[k - 1]) ELSE r

InsertAt(s, p, x) ==
  [i \in 0..Len0(s) |-> IF i < p THEN s[i] ELSE IF i = p THEN x ELSE s[i - 1]]

RECURSIVE SortedUpTo(_, _)
SortedUpTo(a, k) ==
  IF k = 0 THEN <<>>
  ELSE LET s == SortedUpTo(a, k - 1)
       IN  InsertAt(s, Cardinality({i \in DOMAIN s : s[i] <= a[k - 1]}), a[k - 1])

\* sorted(list) of integers
Sorted(a) == SortedUpTo(a, Len0(a))

RECURSIVE SortIndexUpTo(_, _)
SortIndexUpTo(rows, k) ==
  IF k = 0 THEN {<<>>}
  ELSE UNION {
         {InsertAt(s, p, rows[k - 1]) :
            p \in Cardinality({i \in DOMAIN s : s[i].index < rows[k - 1].index})
                  .. Cardinality({i \in DOMAIN s : s[i].index <= rows[k - 1].index})}
         : s \in SortIndexUpTo(rows, k - 1)}

\* DataFrame.sort_index(): the rows by ascending index label; the default sort is
\* not stable, so rows with equal labels come in any order
SortIndex(rows) == SortIndexUpTo(rows, Len0(rows))

\* prizes_dataframe.set_index(self.nodes.get_indexer(prizes_dataframe['name']))
SetIndex(df, index) ==
  [k \in DOMAIN df |->
     [index |-> get_indexer(index, df[k].name), name |-> df[k].name, prize |-> df[k].prize]]

\* left.merge(pd.DataFrame(self.nodes, columns=["name"]), on="name", how="outer")
\* .fillna(0): every row of left, then a row with prize 0 for every other node
MergeOuter(left, index) ==
  LET listed   == {left[k].name : k \in DOMAIN left}
      unlisted == TakeWhere(index, {i \in DOMAIN index : index[i] \notin listed}, Len0(index))
  IN  Concat0([k \in DOMAIN left |-> [name |-> left[k].name, prize |-> left[k].prize]],
              [k \in DOMAIN unlisted |-> [name |-> unlisted[k], prize |-> 0]])

\* prizes_dataframe.drop(-1) raises KeyError when no row carries the label -1
DropRaises(df) == \A k \in DOMAIN df : df[k].index # -1

PreparePrizes ==
  /\ pc = "built"
  /\ LET df      == SetIndex(prize_file, nodes)
         missing == TakeWhere(df, {k \in DOMAIN df : df[k].index = -1}, Len0(df))
         kept    == TakeWhere(df, {k \in DOMAIN df : df[k].index # -1}, Len0(df))
         merged  == SetIndex(MergeOuter(kept, nodes), nodes)
     IN  IF DropRaises(df)
         THEN /\ pc' = "KeyError"
              /\ UNCHANGED prizeVars
         ELSE /\ \E sorted \in SortIndex(merged) :
                   prizes' = [k \in DOMAIN sorted |-> sorted[k].prize]
              /\ terminals' = Sorted([k \in DOMAIN kept |-> kept[k].index])
              /\ terminals_missing_from_interactome' =
                   [k \in DOMAIN missing |->
                      [name |-> missing[k].name, prize |-> missing[k].prize]]
              /\ pc' = "prepared"
  /\ UNCHANGED <<inputVars, graphVars, costs, rng, noisy_log, rtVars, rzVars>>

----------------------------------------------------------------------------
(* The generator of the random module: its state is a position in a fixed  *)
(* cyclic stream of standard normal deviates (in hundredths); random.seed    *)
(* sets the position and every random.gauss reads one deviate and moves on.  *)
(* Every ordered pair of the deviates occurs in succession in the stream.    *)

ZVals == <<-150, -1, 0, 1, 150>>

Stream == <<1, 1, 2, 1, 3, 1, 4, 1, 5, 2, 2, 3, 2, 4, 2, 5, 3, 3, 4, 3, 5, 4, 4, 5, 5>>

RngStates == 0..(Len(Stream) - 1)

\* random.gauss(0, sigma) in state s, sigma and the result in hundredths
Gauss(s, sigma) == (ZVals[Stream[s + 1]] * sigma) \div 100

\* the generator state after k draws
AdvanceBy(s, k) == (s + k) % Len(Stream)

Advance(s) == AdvanceBy(s, 1)

\* random.seed(seed)
Seed(seed) == (7 * seed + 3) % Len(Stream)

\* "if seed: random.seed(seed)": None and 0 are both false
SeedIfTrue(seed, s) == IF seed # None /\ seed # 0 THEN Seed(seed) ELSE s

----------------------------------------------------------------------------
(* Graph.noisy_edges *)

\* [cost + random.gauss(0, std_dev) for cost in self.costs]: one draw per cost,
\* in order
Noisy(c, sigma, s) ==
  [costs |-> [k \in DOMAIN c |-> c[k] + Gauss(AdvanceBy(s, k), sigma)],
   rng   |-> AdvanceBy(s, Len0(c))]

\* noisy_edges(seed) called in generator state s: the list returned and the
\* state it leaves
noisy_edges(seed, s) == Noisy(costs, params.noise, SeedIfTrue(seed, s))

NoisyEdgesCall ==
  /\ pc = "built"
  /\ Len0(noisy_log) < MaxCalls
  /\ \E seed \in {None} \cup (0..2) :
       LET r == noisy_edges(seed, rng)
       IN  /\ noisy_log' = Append0(noisy_log,
                                   [seed |-> seed, costs |-> costs, result |-> r.costs])
           /\ rng' = r.rng
  /\ UNCHANGED <<pc, inputVars, graphVars, costs, prizeVars, rtVars, rzVars>>

\* any other use of the shared generator between two calls
ForeignDraw ==
  /\ pc = "built"
  /\ rng' = Advance(rng)
  /\ UNCHANGED <<pc, inputVars, graphVars, costs, prizeVars, noisy_log, rtVars, rzVars>>

----------------------------------------------------------------------------
(* Graph.random_terminals *)

TooSmallInclusive(e) == Len0(e) <= MinEdges

\* "if len(self.edges) < 50: sys.exit(...)"
TooSmall(e) == Len0(e) < MinEdges

\* pd.Series(self.node_degrees).sort_values(): the node IDs by ascending degree,
\* nodes of equal degree in any order.  The positions the terminals T can have
\* in such an order: one position each, within its degree class.
ValidRanks(T) ==
  {r \in [T -> DOMAIN node_degrees] :
     /\ \A t, u \in T : r[t] = r[u] => t = u
     /\ \A t \in T :
          /\ r[t] >= Cardinality({i \in DOMAIN node_degrees : node_degrees[i] < node_degrees[t]})
          /\ r[t] <  Cardinality({i \in DOMAIN node_degrees : node_degrees[i] <= node_degrees[t]})}

\* clip(x, lower, upper)
Clip(x, lower, upper) == IF x < lower THEN lower ELSE IF x > upper THEN upper ELSE x

\* the rank of a terminal plus random.gauss(0, 100.0), clipped to
\* [0, len(self.nodes)]; ranks in hundredths until the division
NewTerminal(r, s) ==
  Clip(r * 100 + Gauss(s, JitterStd), 0, Len0(nodes) * 100) \div 100

PrizeOfReplaced(prz, cur, terminal) == cur[terminal]

\* prize = prizes.loc(terminal)
PrizeOf(prz, cur, terminal) == prz[terminal]

RECURSIVE RTLoop(_, _, _, _, _)
\* the for loop over the first k terminals
RTLoop(terms, prz, rank, s, k) ==
  IF k = 0 THEN [new_prizes |-> prz, new_terminals |-> <<>>, rng |-> s]
  ELSE LET st           == RTLoop(terms, prz, rank, s, k - 1)
           terminal     == terms[k - 1]
           prize        == PrizeOf(prz, st.new_prizes, terminal)
           zeroed       == SetItem(st.new_prizes, terminal, 0)
           new_terminal == NewTerminal(rank[terminal], st.rng)
       IN  [new_prizes    |-> SetItem(zeroed, new_terminal, prize),
            new_terminals |-> Append0(st.new_terminals, new_terminal),
            rng           |-> Advance(st.rng)]

\* random_terminals(terminals, prizes, seed) past its size check, for one order
\* of the nodes by degree
random_terminals(terms, prz, seed, rank, s) ==
  RTLoop(terms, prz, rank, SeedIfTrue(seed, s), Len0(terms))

RandomTerminalsCall ==
  /\ pc = "prepared"
  /\ \E seed \in {None} \cup (0..1) :
       /\ rt_seed' = seed
       /\ IF TooSmall(edges)
          THEN /\ pc' = "SystemExit"
               /\ UNCHANGED <<rng, new_prizes, new_terminals>>
          ELSE \E rank \in ValidRanks(Range0(terminals)) :
                 LET r == random_terminals(terminals, prizes, seed, rank, rng)
                 IN  /\ new_prizes' = r.new_prizes
                     /\ new_terminals' = r.new_terminals
                     /\ rng' = r.rng
                     /\ pc' = "rt_returned"
  /\ UNCHANGED <<inputVars, graphVars, costs, prizeVars, noisy_log, rzVars>>

----------------------------------------------------------------------------
(* Graph.randomizations *)

\* a list written as a tuple
L(t) == [i \in 0..(Len(t) - 1) |-> t[i + 1]]

Rest(a) == [i \in 0..(Len0(a) - 2) |-> a[i + 1]]

\* What one call of the solver (pcst_fast, through self.pcsf) may return: a
\* list of vertex indices and a list of edge indices, the last edge index
\* possibly that of an edge the interactome does not hold (a dummy-node edge).
SolverOutputs ==
  {[vertices |-> L(v), edges |-> e] :
     v \in {<<1, 2>>, <<2, 3>>, <<0>>},
     e \in {<<>>, L(<<0>>), L(<<0, Len0(edges)>>)}}

RECURSIVE NoisyLists(_, _)
\* [self.noisy_edges() for rep in range(k)]
NoisyLists(k, s) ==
  IF k = 0 THEN [list |-> <<>>, rng |-> s]
  ELSE LET r == NoisyLists(k - 1, s)
           c == noisy_edges(None, r.rng)
       IN  [list |-> Append0(r.list, c.costs), rng |-> c.rng]

RECURSIVE RandomLists(_, _, _)
\* [self.random_terminals() for rep in range(k)]
RandomLists(k, rank, s) ==
  IF k = 0 THEN [list |-> <<>>, rng |-> s]
  ELSE LET r == RandomLists(k - 1, rank, s)
           c == random_terminals(terminals, prizes, None, rank, r.rng)
       IN  [list |-> Append0(r.list, [random_prizes |-> c.new_prizes,
                                      terminals |-> c.new_terminals]),
            rng  |-> c.rng]

RECURSIVE flatten(_)
\* flatten(list_of_lists)
flatten(list_of_lists) ==
  IF DOMAIN list_of_lists = {} THEN <<>>
  ELSE Concat0(list_of_lists[0], flatten(Rest(list_of_lists)))

\* list(Counter(flat).items()): every element once, with the number of its
\* occurrences, in order of first occurrence
CounterItems(flat) ==
  LET u == Uniques(flat)
  IN  [k \in DOMAIN u |->
         [index |-> u[k], occurrence |-> Cardinality({i \in DOMAIN flat : flat[i] = u[k]})]]

DenominatorWithBase(res) == Len0(res) + 1

\* denominator = len(results)
Denominator(res) == Len0(res)

\* occurrence /= denominator: the quotient, as numerator and denominator
Fractions(items, denominator) ==
  [k \in DOMAIN items |->
     [index |-> items[k].index,
      occurrence |-> [num |-> items[k].occurrence, den |-> denominator]]]

\* edge_indices.merge(self.interactome_dataframe, how='inner',
\*                    left_on='edge_index', right_index=True)
MergeInner(ei, df) ==
  LET hit == TakeWhere(ei, {k \in DOMAIN ei : ei[k].index \in DOMAIN df}, Len0(ei))
  IN  [k \in DOMAIN hit |->
         [edge_index |-> hit[k].index, occurrence |-> hit[k].occurrence,
          source |-> df[hit[k].index].source, target |-> df[hit[k].index].target,
          cost |-> df[hit[k].index].cost]]

\* nx.from_pandas_dataframe(edges, 'source', 'target', edge_attr=['cost','occurrence']):
\* an undirected graph, one edge per pair of names, a later row replacing an earlier
NxGraph(rows) ==
  [e \in {{rows[k].source, rows[k].target} : k \in DOMAIN rows} |->
     LET k == MaxOf({j \in DOMAIN rows : {rows[j].source, rows[j].target} = e})
     IN  [cost |-> rows[k].cost, occurrence |-> rows[k].occurrence]]

RandomizationsStart ==
  /\ pc = "prepared"
  /\ \E r1 \in 0..MaxTrials : \E r2 \in 0..(MaxTrials - r1) :
       LET n == NoisyLists(r1, rng)
       IN  /\ reps' = <<r1, r2>>
           /\ noisy_list' = n.list
           /\ rng' = n.rng
  /\ before' = [nodes |-> nodes, edges |-> edges, costs |-> costs]
  /\ results' = <<>>
  /\ edge_costs' = costs
  /\ pc' = "noisy_loop"
  /\ UNCHANGED <<inputVars, graphVars, costs, prizeVars, noisy_log, rtVars,
                 random_list, solver_log, vertex_indices, edge_indices, nxgraph>>

\* self.pcsf(p) with self.costs = c: the call is logged; the solver returns a
\* result, which is appended to results, or fails, which ends randomizations
Pcsf(mode, c, p) ==
  /\ solver_log' = Append0(solver_log, [mode |-> mode, costs |-> c, prizes |-> p])
  /\ \/ \E out \in SolverOutputs :
          /\ results' = Append0(results, out)
          /\ UNCHANGED pc
     \/ /\ pc' = "SolverError"
        /\ UNCHANGED results

NoisyTrial ==
  /\ pc = "noisy_loop"
  /\ DOMAIN noisy_list # {}
  /\ costs' = noisy_list[0]
  /\ noisy_list' = Rest(noisy_list)
  /\ Pcsf("noisy_edges", noisy_list[0], prizes)
  /\ UNCHANGED <<inputVars, graphVars, prizeVars, rng, noisy_log, rtVars, reps, before,
                 edge_costs, random_list, vertex_indices, edge_indices, nxgraph>>

\* self.costs = edge_costs, then the list of random-terminal instances
RestoreCosts ==
  /\ pc = "noisy_loop"
  /\ DOMAIN noisy_list = {}
  /\ costs' = edge_costs
  /\ IF reps[2] > 0 /\ TooSmall(edges)
     THEN /\ pc' = "SystemExit"
          /\ UNCHANGED <<rng, random_list>>
     ELSE \E rank \in ValidRanks(Range0(terminals)) :
            LET r == RandomLists(reps[2], rank, rng)
            IN  /\ random_list' = r.list
                /\ rng' = r.rng
                /\ pc' = "random_loop"
  /\ UNCHANGED <<inputVars, graphVars, prizeVars, noisy_log, rtVars, reps, before,
                 edge_costs, noisy_list, results, solver_log, vertex_indices,
                 edge_indices, nxgraph>>

RandomTrial ==
  /\ pc = "random_loop"
  /\ DOMAIN random_list # {}
  /\ random_list' = Rest(random_list)
  /\ Pcsf("random_terminals", costs, random_list[0].random_prizes)
  /\ UNCHANGED <<inputVars, graphVars, costs, prizeVars, rng, noisy_log, rtVars, reps,
                 before, edge_costs, noisy_list, vertex_indices, edge_indices, nxgraph>>

\* "vertex_indices, edge_indices = zip(*results)" raises ValueError on no results
Aggregate ==
  /\ pc = "random_loop"
  /\ DOMAIN random_list = {}
  /\ IF DOMAIN results = {}
     THEN /\ pc' = "ValueError"
          /\ UNCHANGED <<vertex_indices, edge_indices, nxgraph>>
     ELSE LET denominator == Denominator(results)
              vi == Fractions(CounterItems(flatten([k \in DOMAIN results |-> results[k].vertices])),
                              denominator)
              ei == Fractions(CounterItems(flatten([k \in DOMAIN results |-> results[k].edges])),
                              denominator)
          IN  /\ vertex_indices' = vi
              /\ edge_indices' = ei
              /\ nxgraph' = NxGraph(MergeInner(ei, edge_file))
              /\ pc' = "done"
  /\ UNCHANGED <<inputVars, graphVars, costs, prizeVars, rng, noisy_log, rtVars, reps,
                 before, edge_costs, noisy_list, random_list, results, solver_log>>

----------------------------------------------------------------------------
(* Inputs *)

SmallNames == {"A", "B", "C"}

SmallRows == {[source |-> s, target |-> t, cost |-> 50] : s, t \in SmallNames}

DefaultParams ==
  [mu |-> DefaultMu, mu_squared |-> FALSE, exclude_terminals |-> FALSE, noise |-> DefaultNoise]

Blank ==
  /\ pc = "start"
  /\ nodes = <<>> /\ edges = <<>> /\ costs = <<>>
  /\ node_degrees = <<>> /\ negprizes = <<>>
  /\ prizes = <<>> /\ terminals = <<>> /\ terminals_missing_from_interactome = <<>>
  /\ noisy_log = <<>>
  /\ rt_seed = None /\ new_prizes = <<>> /\ new_terminals = <<>>
  /\ reps = <<0, 0>> /\ before = <<>> /\ edge_costs = <<>>
  /\ noisy_list = <<>> /\ random_list = <<>> /\ results = <<>>
  /\ solver_log = <<>> /\ vertex_indices = <<>> /\ edge_indices = <<>>
  /\ nxgraph = <<>>

\* a large interactome: the first m pairs i < j of BigNames in lexicographic
\* order, every second one written target first
BigNames == <<"P01", "P02", "P03", "P04", "P05", "P06", "P07", "P08", "P09", "P10", "P11">>

PairAt(k) ==
  CHOOSE p \in (1..Len(BigNames)) \X (1..Len(BigNames)) :
    /\ p[1] < p[2]
    /\ (p[1] - 1) * Len(BigNames) - (p[1] * (p[1] - 1)) \div 2 + (p[2] - p[1] - 1) = k

BigFile(m) ==
  [k \in 0..(m - 1) |->
     LET p == PairAt(k)
     IN  [source |-> BigNames[p[IF k % 2 = 0 THEN 1 ELSE 2]],
          target |-> BigNames[p[IF k % 2 = 0 THEN 2 ELSE 1]],
          cost   |-> 10 * (1 + (k % 9))]]

----------------------------------------------------------------------------
(* The interactome index alone *)

InitIndex ==
  /\ Blank
  /\ edge_file \in Lists(SmallRows, 1, MaxEdges)
  /\ prize_file = <<>>
  /\ params = DefaultParams
  /\ rng = 0

NextIndex == GraphInit

SpecIndex == InitIndex /\ [][NextIndex]_vars

----------------------------------------------------------------------------
(* The index and the prizes *)

SimpleRows ==
  {[source |-> "A", target |-> "B", cost |-> 50],
   [source |-> "B", target |-> "C", cost |-> 20],
   [source |-> "B", target |-> "B", cost |-> 70]}

PrizeRows == {[name |-> x, prize |-> p] : x \in {"A", "B", "Z"}, p \in {100, 200}}

InitPrizes ==
  /\ Blank
  /\ edge_file \in Lists(SimpleRows, 1, MaxEdges)
  /\ prize_file \in Lists(PrizeRows, 1, MaxPrizeRows)
  /\ params \in {[mu |-> 50, mu_squared |-> sq, exclude_terminals |-> ex,
                  noise |-> DefaultNoise] : sq, ex \in BOOLEAN}
  /\ rng = 0

NextPrizes == GraphInit \/ PreparePrizes

SpecPrizes == InitPrizes /\ [][NextPrizes]_vars

----------------------------------------------------------------------------
(* noisy_edges, called a few times on one instance *)

InitNoisy ==
  /\ Blank
  /\ edge_file \in Lists(SimpleRows, 1, MaxEdges)
  /\ prize_file = <<>>
  /\ params = DefaultParams
  /\ rng \in RngStates

NextNoisy == GraphInit \/ NoisyEdgesCall \/ ForeignDraw

SpecNoisy == InitNoisy /\ [][NextNoisy]_vars

----------------------------------------------------------------------------
(* random_terminals on interactomes around the size it requires *)

LargeRows ==
  {[name |-> "P01", prize |-> 300], [name |-> "P10", prize |-> 500],
   [name |-> "P11", prize |-> 700]}

\* prize files of up to MaxTerminals rows for nodes, and one for a name the
\* interactome lacks
LargeFiles(k) == {Append0(t, [name |-> "Z", prize |-> 100]) : t \in Lists(LargeRows, 0, k)}

InitRandTerm ==
  /\ Blank
  /\ edge_file \in {BigFile(m) : m \in (MinEdges - 1)..(MinEdges + ExtraEdges)}
  /\ prize_file \in LargeFiles(MaxTerminals)
  /\ params = DefaultParams
  /\ rng \in RngStates

NextRandTerm == GraphInit \/ PreparePrizes \/ RandomTerminalsCall

SpecRandTerm == InitRandTerm /\ [][NextRandTerm]_vars

----------------------------------------------------------------------------
(* randomizations *)

InitEnsemble ==
  /\ Blank
  /\ edge_file \in {BigFile(MinEdges - 1), BigFile(MinEdges)}
  /\ prize_file \in LargeFiles(1)
  /\ params = DefaultParams
  /\ rng \in {3, 24}

NextEnsemble ==
  \/ GraphInit
  \/ PreparePrizes
  \/ RandomizationsStart
  \/ NoisyTrial
  \/ RestoreCosts
  \/ RandomTrial
  \/ Aggregate

SpecEnsemble == InitEnsemble /\ [][NextEnsemble]_vars

----------------------------------------------------------------------------
(* The claims *)

FileNames ==
  {edge_file[k].source : k \in DOMAIN edge_file} \cup {edge_file[k].target : k \in DOMAIN edge_file}

\* C1: once Graph.__init__ has run, self.nodes maps the n distinct names of the
\* edge file one-to-one onto the IDs 0..n-1, and self.edges has one ID pair per
\* record, in input order, that maps back through self.nodes to the record's
\* source and target names.
C1_IndexRoundTrip ==
  pc = "built" =>
    /\ DOMAIN nodes = 0..(Cardinality(FileNames) - 1)
    /\ Range0(nodes) = FileNames
    /\ \A i, j \in DOMAIN nodes : nodes[i] = nodes[j] => i = j
    /\ DOMAIN edges = DOMAIN edge_file
    /\ \A k \in DOMAIN edge_file :
         /\ edges[k][1] \in DOMAIN nodes /\ nodes[edges[k][1]] = edge_file[k].source
         /\ edges[k][2] \in DOMAIN nodes /\ nodes[edges[k][2]] = edge_file[k].target

\* two records over three names, the second record's source indexed before the
\* first record's target
C1_Witness ==
  /\ pc = "built"
  /\ Len0(edge_file) = 2
  /\ Cardinality(FileNames) = 3
  /\ nodes[1] = edge_file[1].source
  /\ nodes[2] = edge_file[0].target

ListedIDs == {get_indexer(nodes, prize_file[k].name) : k \in DOMAIN prize_file} \ {-1}

\* C2: prepare_prizes returns, for every prize table, (a) a prize array with one
\* entry per node, the listed prize at the ID of every listed name of the
\* interactome and 0 at every other ID, (b) the ascending list of the IDs of the
\* listed names that resolve, (c) a record holding every listed name that does
\* not resolve, which is in neither other output.
C2_PrizeMapper ==
  pc \in {"prepared", "KeyError"} =>
    /\ pc = "prepared"
    /\ DOMAIN prizes = DOMAIN nodes
    /\ \A i \in DOMAIN nodes :
         IF i \in ListedIDs
         THEN \E k \in DOMAIN prize_file :
                prize_file[k].name = nodes[i] /\ prizes[i] = prize_file[k].prize
         ELSE prizes[i] = 0
    /\ Range0(terminals) = ListedIDs
    /\ \A i, j \in DOMAIN terminals : i < j => terminals[i] <= terminals[j]
    /\ {terminals_missing_from_interactome[k].name :
          k \in DOMAIN terminals_missing_from_interactome}
         = {prize_file[k].name : k \in DOMAIN prize_file} \ Range0(nodes)

\* C3: when a name of the interactome is listed in several records of the prize
\* table, the prize array returned by prepare_prizes still has one entry per
\* node ID and the entry of that name's ID is the prize of the last such record.
C3_LastWriteWins ==
  pc = "prepared" =>
    \A k, l \in DOMAIN prize_file :
      (k < l /\ prize_file[k].name = prize_file[l].name /\ prize_file[k].name \in Range0(nodes)) =>
        /\ DOMAIN prizes = DOMAIN nodes
        /\ prizes[get_indexer(nodes, prize_file[k].name)] =
             prize_file[MaxOf({m \in DOMAIN prize_file :
                                 prize_file[m].name = prize_file[k].name})].prize

Incident(i) ==
  Cardinality({k \in DOMAIN edge_file : edge_file[k].source = nodes[i]})
    + Cardinality({k \in DOMAIN edge_file : edge_file[k].target = nodes[i]})

\* C7: self.negprizes has one entry per node ID; with exclude_terminals set the
\* entry of every terminal is 0; every other entry is degree * mu, or
\* degree^2 * mu when mu_squared is set.
C7_NegativePrizes ==
  pc \in {"built", "prepared", "KeyError"} =>
    /\ DOMAIN negprizes = DOMAIN nodes
    /\ \A i \in DOMAIN nodes :
         IF pc = "prepared" /\ params.exclude_terminals /\ i \in Range0(terminals)
         THEN negprizes[i] = 0
         ELSE negprizes[i] =
                (IF params.mu_squared THEN Incident(i) * Incident(i) ELSE Incident(i)) * params.mu

\* C6: two calls of noisy_edges with the same supplied integer seed and the same
\* cost array return the same perturbed cost array, whatever the generator state
\* before each.
C6_SeededNoiseDeterministic ==
  \A i, j \in DOMAIN noisy_log :
    (noisy_log[i].seed # None /\ noisy_log[i].seed = noisy_log[j].seed
       /\ noisy_log[i].costs = noisy_log[j].costs)
      => noisy_log[i].result = noisy_log[j].result

\* C5: random_terminals on an interactome of fewer than 50 edges ends in the
\* small-interactome exit and returns nothing; on one of 50 or more edges it
\* does not exit and returns a prize array and a terminal list.
C5_SizePrecondition ==
  pc \in {"SystemExit", "rt_returned"} =>
    IF Len0(edges) < 50
    THEN pc = "SystemExit" /\ new_prizes = <<>> /\ new_terminals = <<>>
    ELSE pc = "rt_returned" /\ DOMAIN new_prizes # {}
           /\ DOMAIN new_terminals = DOMAIN terminals

\* exactly 50 edges: the call returned, with a replacement terminal
C5_Witness ==
  /\ pc = "rt_returned"
  /\ Len0(edges) = 50
  /\ DOMAIN new_terminals # {}

\* C9: every replacement terminal random_terminals returns is a node ID of the
\* interactome (the jittered rank is clipped into [0, n-1]) and every index it
\* writes into the output prize array is within the array's bounds.
C9_ReplacementInRange ==
  pc = "rt_returned" =>
    /\ \A k \in DOMAIN new_terminals : new_terminals[k] \in DOMAIN nodes
    /\ DOMAIN new_prizes = DOMAIN prizes

Returns == pc = "prepared" /\ pc' = "rt_returned"

\* C10 as stated: in the array random_terminals returns, the entry of every
\* original terminal is zero and the entry of its replacement holds its
\* original prize; the input array is unmodified; one replacement is returned
\* per original terminal.
C10_PrizesReassigned ==
  [][Returns =>
       /\ prizes' = prizes
       /\ DOMAIN new_terminals' = DOMAIN terminals
       /\ \A k \in DOMAIN terminals :
            /\ new_prizes'[terminals[k]] = 0
            /\ new_prizes'[new_terminals'[k]] = prizes[terminals[k]]]_vars

\* C10 as amended: the loop writes in order, so the entry of a replacement holds
\* the terminal's original prize unless a later terminal has that ID as its own
\* or as its replacement, and the entry of a terminal is zero unless its own or
\* a later replacement is that ID.
C10_LastWriteStands ==
  [][Returns =>
       /\ prizes' = prizes
       /\ DOMAIN new_terminals' = DOMAIN terminals
       /\ \A k \in DOMAIN terminals :
            /\ (\A j \in DOMAIN terminals :
                  j > k => terminals[j] # new_terminals'[k]
                           /\ new_terminals'[j] # new_terminals'[k])
                 => new_prizes'[new_terminals'[k]] = prizes[terminals[k]]
            /\ (\A j \in DOMAIN terminals : j >= k => new_terminals'[j] # terminals[k])
                 => new_prizes'[terminals[k]] = 0]_vars

\* two terminals moved to two other nodes: both prizes carried over, both
\* original entries zeroed
C10_Witness ==
  /\ pc = "rt_returned"
  /\ Len0(terminals) = 2
  /\ terminals[0] # terminals[1]
  /\ new_terminals[0] # new_terminals[1]
  /\ Range0(new_terminals) \cap Range0(terminals) = {}
  /\ Range0(new_terminals) \subseteq DOMAIN nodes
  /\ \A k \in DOMAIN terminals :
       new_prizes[terminals[k]] = 0 /\ new_prizes[new_terminals[k]] = prizes[terminals[k]]

TrialsWithVertex(x) ==
  Cardinality({t \in DOMAIN results : x \in Range0(results[t].vertices)})

TrialsWithEdge(x) ==
  Cardinality({t \in DOMAIN results : x \in Range0(results[t].edges)})

\* the reported occurrence is the fraction a / b, and lies in (0, 1]
IsFraction(occ, a, b) ==
  /\ occ.den > 0 /\ b > 0
  /\ occ.num * b = a * occ.den
  /\ 0 < occ.num /\ occ.num <= occ.den

\* C4: when randomizations returns, the solver was called R1 + R2 times, and
\* every vertex index and every edge index some trial returned is reported
\* once, with the fraction (trials whose result holds it) / (R1 + R2).
C4_OccurrenceFractions ==
  pc = "done" =>
    /\ Len0(solver_log) = reps[1] + reps[2]
    /\ Len0(results) = reps[1] + reps[2]
    /\ {vertex_indices[k].index : k \in DOMAIN vertex_indices}
         = UNION {Range0(results[t].vertices) : t \in DOMAIN results}
    /\ {edge_indices[k].index : k \in DOMAIN edge_indices}
         = UNION {Range0(results[t].edges) : t \in DOMAIN results}
    /\ \A k, l \in DOMAIN vertex_indices :
         vertex_indices[k].index = vertex_indices[l].index => k = l
    /\ \A k, l \in DOMAIN edge_indices :
         edge_indices[k].index = edge_indices[l].index => k = l
    /\ \A k \in DOMAIN vertex_indices :
         IsFraction(vertex_indices[k].occurrence,
                    TrialsWithVertex(vertex_indices[k].index), reps[1] + reps[2])
    /\ \A k \in DOMAIN edge_indices :
         IsFraction(edge_indices[k].occurrence,
                    TrialsWithEdge(edge_indices[k].index), reps[1] + reps[2])

\* one noisy-edge trial returning {1,2} and one random-terminal trial returning
\* {2,3}: the fractions are 1: 1/2, 2: 2/2, 3: 1/2
C4_Witness ==
  /\ pc = "done"
  /\ reps = <<1, 1>>
  /\ results[0].vertices = L(<<1, 2>>)
  /\ results[1].vertices = L(<<2, 3>>)
  /\ vertex_indices =
       L(<<[index |-> 1, occurrence |-> [num |-> 1, den |-> 2]],
           [index |-> 2, occurrence |-> [num |-> 2, den |-> 2]],
           [index |-> 3, occurrence |-> [num |-> 1, den |-> 2]]>>)

\* C8: when randomizations ends, by returning or by a failing solver call, the
\* node index, the edge list and self.costs are what they were when it started,
\* and every random-terminal trial was solved with the base costs.
C8_BaseInstanceUnchanged ==
  pc \in {"done", "SolverError"} =>
    /\ nodes = before.nodes
    /\ edges = before.edges
    /\ costs = before.costs
    /\ \A k \in DOMAIN solver_log :
         solver_log[k].mode = "random_terminals" => solver_log[k].costs = before.costs

====
